---- MODULE Spec2Model ----
(***************************************************************************)
(* Model of the Nexus AI chat client: the App component's state and event  *)
(* handlers, generateResponse (the dispatch table), runOrchestrator (the   *)
(* router) and the specialized handlers of services/geminiService.ts.      *)
(*                                                                         *)
(* JavaScript values.  An optional value ("T | undefined") is a set with   *)
(* at most one element: {} is undefined, {v} is the value v.  A key that   *)
(* an object literal does not write is absent from the record's DOMAIN; a  *)
(* key written with the value undefined is in the DOMAIN with value {}.    *)
(* Strings are TLA+ strings, so concatenation, prefixes, trim and split    *)
(* are computed on the characters.                                         *)
(***************************************************************************)
EXTENDS Integers, Sequences, FiniteSets, TLC

(***************************************************************************)
(* Bounds of the model                                                     *)
(***************************************************************************)
MaxClock == 1
MaxMessages == 5
MaxModeChanges == 1
MaxCalls == 2
MaxChunks == 2
MaxParts == 2

(***************************************************************************)
(* JavaScript value helpers                                                *)
(***************************************************************************)
undefined == {}

Def(v) == {v}

ValueOf(o) == CHOOSE v \in o : TRUE

\* truthiness of an optional string: undefined and "" are falsy
TruthyStr(o) == o # {} /\ o # {""}

\* truthiness of an optional object: only undefined is falsy
TruthyObj(o) == o # {}

\* the JavaScript expression `o || d` for an optional string o
OrElse(o, d) == IF TruthyStr(o) THEN ValueOf(o) ELSE d

\* a value interpolated in a template literal: `${o}`
Interpolate(o) == IF o = {} THEN "undefined" ELSE ValueOf(o)

\* obj.key of a key that holds an optional value, also when the object
\* literal never wrote the key
Get(obj, key) == IF key \in DOMAIN obj THEN obj[key] ELSE undefined

\* obj.key of a key that holds a plain value when it is written at all
Prop(obj, key) == IF key \in DOMAIN obj THEN Def(obj[key]) ELSE undefined

IsWhitespace(c) == c \in {" ", "\n", "\t"}

RECURSIVE TrimStart(_)
TrimStart(s) ==
  IF Len(s) = 0 THEN s
  ELSE IF IsWhitespace(SubSeq(s, 1, 1)) THEN TrimStart(SubSeq(s, 2, Len(s)))
  ELSE s

RECURSIVE TrimEnd(_)
TrimEnd(s) ==
  IF Len(s) = 0 THEN s
  ELSE IF IsWhitespace(SubSeq(s, Len(s), Len(s))) THEN TrimEnd(SubSeq(s, 1, Len(s) - 1))
  ELSE s

\* String.prototype.trim
Trim(s) == TrimEnd(TrimStart(s))

\* String.prototype.startsWith
StartsWith(s, p) == Len(s) >= Len(p) /\ SubSeq(s, 1, Len(p)) = p

\* String.prototype.split with a one-character separator
RECURSIVE Split(_, _)
Split(s, sep) ==
  LET hits == {i \in 1..Len(s) : SubSeq(s, i, i) = sep}
  IN IF hits = {} THEN <<s>>
     ELSE LET i == CHOOSE j \in hits : \A k \in hits : j <= k
          IN <<SubSeq(s, 1, i - 1)>> \o Split(SubSeq(s, i + 1, Len(s)), sep)

\* arr[i] of a JavaScript array (zero-based), undefined out of range
At(arr, i) == IF i + 1 \in DOMAIN arr THEN Def(arr[i + 1]) ELSE undefined

SeqsUpTo(S, n) == UNION {[1..k -> S] : k \in 0..n}

(***************************************************************************)
(* types.ts: the AgentMode enumeration                                     *)
(***************************************************************************)
ORCHESTRATOR == "ORCHESTRATOR"

CODER == "CODER"

ARTIST == "ARTIST"

SPEAKER == "SPEAKER"

ANALYST == "ANALYST"

AgentMode == {ORCHESTRATOR, CODER, ARTIST, SPEAKER, ANALYST}

(***************************************************************************)
(* The remote service.  A remote call either fails (the SDK throws an      *)
(* Error) or returns a response; what it returns is not under the          *)
(* program's control, so every shape the code probes is drawn from the     *)
(* sets below.                                                             *)
(***************************************************************************)
\* error.message of a thrown Error
ErrorMessages == {undefined, Def(""), Def("fetch failed")}

Failures == {[ok |-> FALSE, error |-> [message |-> m]] : m \in ErrorMessages}

\* response.text
Texts == {undefined, Def(""), Def(" "), Def("answer")}

\* the function names the router declares to the remote model
DeclaredTools == {"dispatch_create_image", "dispatch_speak_text", "dispatch_write_code"}

\* call.name: a declared tool, or a name the router does not know
CallNames == DeclaredTools \cup {"dispatch_other"}

\* call.args: every declared argument set (each to a different string), or none
CallArgs ==
  { [prompt |-> Def("a red fox"), text |-> Def("hello"), task_description |-> Def("reverse a string")],
    [prompt |-> undefined, text |-> undefined, task_description |-> undefined] }

FunctionCalls == [name : CallNames, args : CallArgs]

\* response.functionCalls when it is a list: the first call varies in name and
\* arguments, the calls after it in name
FunctionCallLists ==
  {<<>>} \cup
  { <<first>> \o rest :
      first \in FunctionCalls,
      rest \in SeqsUpTo({c \in FunctionCalls : TruthyStr(c.args.prompt)}, MaxCalls - 1) }

\* chunk.web of a grounding chunk: undefined for a chunk that is no web citation
WebChunks ==
  { [web |-> undefined],
    [web |-> Def([uri |-> Def("https://a"), title |-> Def("")])],
    [web |-> Def([uri |-> Def("https://b"), title |-> undefined])],
    [web |-> Def([uri |-> undefined, title |-> Def("B")])] }

\* response.candidates?.[0]?.groundingMetadata?.groundingChunks
GroundingChunkLists == {undefined} \cup {Def(l) : l \in SeqsUpTo(WebChunks, MaxChunks)}

\* responses to the router's decision request: the function calls vary with a
\* plain answer, and the answer and its citations vary with no declared call
DecisionResponses ==
  { [ok |-> TRUE, functionCalls |-> Def(l), text |-> Def("answer"), groundingChunks |-> undefined] :
      l \in FunctionCallLists }
  \cup
  { [ok |-> TRUE, functionCalls |-> f, text |-> t, groundingChunks |-> g] :
      f \in {undefined, Def(<<>>)},
      t \in Texts,
      g \in {undefined, Def(<<>>), Def(<<[web |-> Def([uri |-> Def("https://a"), title |-> Def("")])]>>)} }
  \cup
  { [ok |-> TRUE, functionCalls |-> f, text |-> Def("answer"), groundingChunks |-> g] :
      f \in {undefined, Def(<<[name |-> "dispatch_other", args |-> CHOOSE a \in CallArgs : TRUE]>>)},
      g \in GroundingChunkLists }

\* responses of the text-producing configurations (code, vision analysis)
TextResponses == {[ok |-> TRUE, text |-> t] : t \in Texts}

\* a part of response.candidates[0].content.parts
Parts ==
  { [inlineData |-> Def([data |-> Def("QUJD")]), text |-> undefined],
    [inlineData |-> Def([data |-> Def("")]), text |-> undefined],
    [inlineData |-> Def([data |-> undefined]), text |-> undefined],
    [inlineData |-> undefined, text |-> Def("a caption")],
    [inlineData |-> undefined, text |-> undefined] }

\* responses of the image and speech configurations:
\* response.candidates?.[0]?.content?.parts
PartsResponses ==
  {[ok |-> TRUE, parts |-> p] : p \in {undefined} \cup {Def(l) : l \in SeqsUpTo(Parts, MaxParts)}}

(***************************************************************************)
(* services/geminiService.ts: the specialized handlers.  Each handler runs *)
(* up to its one `await ai.models.generateContent(...)` (XxxStart: the     *)
(* suspended frame, which carries the request it issued) and resumes when  *)
(* the remote call settles (XxxResume: what the handler returns or         *)
(* throws).  `now` is the value Date.now() returns.                        *)
(***************************************************************************)
Return(message) == [kind |-> "return", value |-> message]

Throw(error) == [kind |-> "throw", error |-> error]

\* a request to the remote service: the model, whether config.tools carries
\* orchestratorTools, and the contents (the text, and the image data if any)
Request(model, tools, text, data) == [model |-> model, tools |-> tools, text |-> text, data |-> data]

\* a handler's frame suspended on a remote call: the function, the argument
\* it holds, and the request it is waiting on
Frame(fn, prompt, model, data) ==
  [fn |-> fn, prompt |-> prompt, request |-> Request(model, FALSE, prompt, data)]

\* entering a handler: the log entry the claims read, and its suspended frame
Started(fn, arg, frame) == [invoked |-> <<[fn |-> fn, arg |-> arg]>>, pending |-> <<frame>>]

\* `history` is accepted and never read
GenerateCodeStart(prompt, history) ==
  Started("generateCode", prompt, Frame("generateCode", prompt, "gemini-3-pro-preview", undefined))

\* faulty variant: the code Message also carries the router's sources entry
GenerateCodeResume_WithSourcesEntry(frame, response, now) ==
  IF ~response.ok THEN Throw(response.error)
  ELSE Return([role |-> "model", type |-> "code",
               content |-> OrElse(response.text, "// No code generated"),
               timestamp |-> now,
               metadata |-> Def([codeLanguage |-> Def("typescript"), webSources |-> undefined])])

GenerateCodeResume(frame, response, now) ==
  IF ~response.ok THEN Throw(response.error)
  ELSE Return([role |-> "model", type |-> "code",
               content |-> OrElse(response.text, "// No code generated"),
               timestamp |-> now,
               metadata |-> Def([codeLanguage |-> Def("typescript")])])

GenerateImageStart(prompt) ==
  Started("generateImage", prompt, Frame("generateImage", prompt, "gemini-2.5-flash-image", undefined))

\* the prefix generateImage puts before the inline payload
ImageDataPrefix == "data:image/png;base64,"

\* the loop over the response's parts: the last inline payload and the last
\* non-empty text win
RECURSIVE ScanImageParts(_, _, _)
ScanImageParts(parts, i, acc) ==
  IF i > Len(parts) THEN acc
  ELSE LET part == parts[i]
       IN IF TruthyObj(part.inlineData)
          THEN ScanImageParts(parts, i + 1,
                 [acc EXCEPT !.imageUrl = ImageDataPrefix \o Interpolate(ValueOf(part.inlineData).data)])
          ELSE IF TruthyStr(part.text)
          THEN ScanImageParts(parts, i + 1, [acc EXCEPT !.text = ValueOf(part.text)])
          ELSE ScanImageParts(parts, i + 1, acc)

\* faulty variant: a response without an image is thrown, as generateSpeech does
GenerateImageResume_Throws(frame, response, now) ==
  IF ~response.ok THEN Throw(response.error)
  ELSE LET scanned == IF TruthyObj(response.parts)
                      THEN ScanImageParts(ValueOf(response.parts), 1, [imageUrl |-> "", text |-> ""])
                      ELSE [imageUrl |-> "", text |-> ""]
       IN IF scanned.imageUrl = ""
          THEN Throw([message |-> Def("Image data missing in response")])
          ELSE Return([role |-> "model", type |-> "image",
                       content |-> IF scanned.text # "" THEN scanned.text
                                   ELSE "Generated: " \o Interpolate(frame.prompt),
                       timestamp |-> now,
                       metadata |-> Def([imageUrl |-> Def(scanned.imageUrl)])])

GenerateImageResume(frame, response, now) ==
  IF ~response.ok THEN Throw(response.error)
  ELSE LET scanned == IF TruthyObj(response.parts)
                      THEN ScanImageParts(ValueOf(response.parts), 1, [imageUrl |-> "", text |-> ""])
                      ELSE [imageUrl |-> "", text |-> ""]
       IN IF scanned.imageUrl = ""
          THEN Return([role |-> "model", type |-> "text",
                       content |-> "I couldn't generate an image. Please try a different prompt.",
                       timestamp |-> now])
          ELSE Return([role |-> "model", type |-> "image",
                       content |-> IF scanned.text # "" THEN scanned.text
                                   ELSE "Generated: " \o Interpolate(frame.prompt),
                       timestamp |-> now,
                       metadata |-> Def([imageUrl |-> Def(scanned.imageUrl)])])

GenerateSpeechStart(prompt) ==
  Started("generateSpeech", prompt, Frame("generateSpeech", prompt, "gemini-2.5-flash-preview-tts", undefined))

\* parts?.[0]?.inlineData?.data
FirstInlineData(parts) ==
  IF ~TruthyObj(parts) THEN undefined
  ELSE LET first == At(ValueOf(parts), 0)
       IN IF ~TruthyObj(first) THEN undefined
          ELSE IF ~TruthyObj(ValueOf(first).inlineData) THEN undefined
          ELSE ValueOf(ValueOf(first).inlineData).data

\* faulty variant: the audio payload is not checked
GenerateSpeechResume_Unchecked(frame, response, now) ==
  IF ~response.ok THEN Throw(response.error)
  ELSE Return([role |-> "model", type |-> "audio",
               content |-> "Audio output generated.",
               timestamp |-> now,
               metadata |-> Def([audioData |-> FirstInlineData(response.parts)])])

GenerateSpeechResume(frame, response, now) ==
  IF ~response.ok THEN Throw(response.error)
  ELSE LET audioData == FirstInlineData(response.parts)
       IN IF ~TruthyStr(audioData)
          THEN Throw([message |-> Def("Audio data missing in response")])
          ELSE Return([role |-> "model", type |-> "audio",
                       content |-> "Audio output generated.",
                       timestamp |-> now,
                       metadata |-> Def([audioData |-> audioData])])

\* imageBase64.split(',')[1] when an image is given: the data URL without its prefix
AnalyzeContentStart(prompt, history, imageBase64) ==
  Started("analyzeContent", prompt,
          Frame("analyzeContent", prompt, "gemini-2.5-flash",
                IF TruthyStr(imageBase64) THEN At(Split(ValueOf(imageBase64), ","), 1) ELSE undefined))

AnalyzeContentResume(frame, response, now) ==
  IF ~response.ok THEN Throw(response.error)
  ELSE Return([role |-> "model", type |-> "text",
               content |-> OrElse(response.text, "Analysis complete."),
               timestamp |-> now])

(***************************************************************************)
(* services/geminiService.ts: runOrchestrator, the router                  *)
(***************************************************************************)
\* a frame that delegates with `return await h(...)`: it settles as h settles
Delegated(fn, arg, started) ==
  [invoked |-> <<[fn |-> fn, arg |-> arg]>> \o started.invoked, pending |-> started.pending]

\* the function continues with another remote call
Call(started) == [kind |-> "call", started |-> started]

\* the router's frame suspended on its decision request; it keeps `history`
\* for the code handler
RouterFrame(prompt, history) ==
  [fn |-> "runOrchestrator", prompt |-> prompt, history |-> history,
   request |-> Request("gemini-2.5-flash", TRUE, prompt, undefined)]

\* faulty variant: the attachment is not looked at and the decision request is sent
RunOrchestratorStart_AlwaysDecides(prompt, history, imageAttachment) ==
  Started("runOrchestrator", prompt, RouterFrame(prompt, history))

RunOrchestratorStart(prompt, history, imageAttachment) ==
  IF TruthyStr(imageAttachment)
  THEN Delegated("runOrchestrator", prompt, AnalyzeContentStart(prompt, history, imageAttachment))
  ELSE Started("runOrchestrator", prompt, RouterFrame(prompt, history))

\* faulty variant: a missing title is left empty
RECURSIVE CollectWebSources_NoTitleDefault(_, _)
CollectWebSources_NoTitleDefault(groundingChunks, i) ==
  IF i > Len(groundingChunks) THEN <<>>
  ELSE LET chunk == groundingChunks[i]
       IN IF TruthyObj(chunk.web)
          THEN <<[uri |-> OrElse(ValueOf(chunk.web).uri, ""),
                  title |-> OrElse(ValueOf(chunk.web).title, "")]>>
               \o CollectWebSources_NoTitleDefault(groundingChunks, i + 1)
          ELSE CollectWebSources_NoTitleDefault(groundingChunks, i + 1)

\* groundingChunks.forEach: one source per chunk that has a `web` entry
RECURSIVE CollectWebSources(_, _)
CollectWebSources(groundingChunks, i) ==
  IF i > Len(groundingChunks) THEN <<>>
  ELSE LET chunk == groundingChunks[i]
       IN IF TruthyObj(chunk.web)
          THEN <<[uri |-> OrElse(ValueOf(chunk.web).uri, ""),
                  title |-> OrElse(ValueOf(chunk.web).title, "Source")]>>
               \o CollectWebSources(groundingChunks, i + 1)
          ELSE CollectWebSources(groundingChunks, i + 1)

\* faulty variant: the list is written also when it is empty
WebSourcesField_AlwaysList(webSources) == Def(webSources)

\* the metadata.webSources entry of the router's own answer
WebSourcesField(webSources) == IF Len(webSources) > 0 THEN Def(webSources) ELSE undefined

\* faulty variant: an empty answer is passed on without the placeholder
RouterAnswer_NoPlaceholder(response, now) ==
  LET text == IF TruthyObj(response.text) THEN ValueOf(response.text) ELSE ""
      webSources == IF TruthyObj(response.groundingChunks)
                    THEN CollectWebSources(ValueOf(response.groundingChunks), 1)
                    ELSE <<>>
  IN [role |-> "model", type |-> "text", content |-> text, timestamp |-> now,
      metadata |-> Def([webSources |-> WebSourcesField(webSources)])]

\* 2. Handle Text Response + Grounding
RouterAnswer(response, now) ==
  LET text == OrElse(response.text, "I processed that request.")
      webSources == IF TruthyObj(response.groundingChunks)
                    THEN CollectWebSources(ValueOf(response.groundingChunks), 1)
                    ELSE <<>>
  IN [role |-> "model", type |-> "text", content |-> text, timestamp |-> now,
      metadata |-> Def([webSources |-> WebSourcesField(webSources)])]

\* faulty variant: the last function call is taken
RoutedCall_Last(functionCalls) ==
  IF TruthyObj(functionCalls) /\ Len(ValueOf(functionCalls)) > 0
  THEN At(ValueOf(functionCalls), Len(ValueOf(functionCalls)) - 1)
  ELSE undefined

\* functionCalls[0] when the response carries function calls
RoutedCall(functionCalls) ==
  IF TruthyObj(functionCalls) /\ Len(ValueOf(functionCalls)) > 0
  THEN At(ValueOf(functionCalls), 0)
  ELSE undefined

\* 1. Check for Tool/Function Calls: the handler a call is routed to, or
\* nothing for a name the router does not know
RouteCall(call, history) ==
  IF call.name = "dispatch_create_image" THEN Def(GenerateImageStart(call.args.prompt))
  ELSE IF call.name = "dispatch_speak_text" THEN Def(GenerateSpeechStart(call.args.text))
  ELSE IF call.name = "dispatch_write_code" THEN Def(GenerateCodeStart(call.args.task_description, history))
  ELSE undefined

\* faulty variant: a failed decision request is sent again
RunOrchestratorResume_Retries(frame, response, now) ==
  IF ~response.ok THEN Call(Started("runOrchestrator", frame.prompt, frame))
  ELSE LET call == RoutedCall(response.functionCalls)
           routed == IF TruthyObj(call) THEN RouteCall(ValueOf(call), frame.history) ELSE undefined
       IN IF TruthyObj(routed) THEN Call(ValueOf(routed))
          ELSE Return(RouterAnswer(response, now))

RunOrchestratorResume(frame, response, now) ==
  IF ~response.ok THEN Throw(response.error)
  ELSE LET call == RoutedCall(response.functionCalls)
           routed == IF TruthyObj(call) THEN RouteCall(ValueOf(call), frame.history) ELSE undefined
       IN IF TruthyObj(routed) THEN Call(ValueOf(routed))
          ELSE Return(RouterAnswer(response, now))

(***************************************************************************)
(* services/geminiService.ts: generateResponse, the dispatch table         *)
(***************************************************************************)
\* faulty variant: the switch has no case for ARTIST, which falls to the default
GenerateResponseStart_NoArtistCase(prompt, mode, history, imageAttachment) ==
  IF mode = ORCHESTRATOR THEN RunOrchestratorStart(prompt, history, imageAttachment)
  ELSE CASE mode = SPEAKER -> GenerateSpeechStart(prompt)
         [] mode = CODER -> GenerateCodeStart(prompt, history)
         [] mode = ANALYST -> AnalyzeContentStart(prompt, history, imageAttachment)
         [] OTHER -> RunOrchestratorStart(prompt, history, imageAttachment)

\* the body of the try block, up to the first await
GenerateResponseStart(prompt, mode, history, imageAttachment) ==
  IF mode = ORCHESTRATOR THEN RunOrchestratorStart(prompt, history, imageAttachment)
  ELSE CASE mode = ARTIST -> GenerateImageStart(prompt)
         [] mode = SPEAKER -> GenerateSpeechStart(prompt)
         [] mode = CODER -> GenerateCodeStart(prompt, history)
         [] mode = ANALYST -> AnalyzeContentStart(prompt, history, imageAttachment)
         [] OTHER -> RunOrchestratorStart(prompt, history, imageAttachment)

\* the suspended function resumes with the settled remote call
Resume(frame, response, now) ==
  CASE frame.fn = "runOrchestrator" -> RunOrchestratorResume(frame, response, now)
    [] frame.fn = "generateImage" -> GenerateImageResume(frame, response, now)
    [] frame.fn = "generateSpeech" -> GenerateSpeechResume(frame, response, now)
    [] frame.fn = "generateCode" -> GenerateCodeResume(frame, response, now)
    [] frame.fn = "analyzeContent" -> AnalyzeContentResume(frame, response, now)

\* how the promise of generateResponse settles
Resolved(message) == [status |-> "resolved", value |-> message]

Rejected(error) == [status |-> "rejected", error |-> error]

\* faulty variant: no catch, a thrown Error rejects the promise
GenerateResponseCatch_Rethrows(completion, now) ==
  IF completion.kind = "return" THEN Resolved(completion.value)
  ELSE Rejected(completion.error)

\* the try/catch around the dispatch: a returned Message passes through, a
\* thrown Error becomes an error Message
GenerateResponseCatch(completion, now) ==
  IF completion.kind = "return" THEN Resolved(completion.value)
  ELSE Resolved([role |-> "model", type |-> "error",
                 content |-> "System Error: " \o OrElse(completion.error.message, "Unknown error occurred."),
                 timestamp |-> now])

\* what the remote service may answer to the request a frame waits on
ResponsesFor(frame) ==
  Failures \cup
  ( CASE frame.fn = "runOrchestrator" -> DecisionResponses
      [] frame.fn \in {"generateImage", "generateSpeech"} -> PartsResponses
      [] frame.fn \in {"generateCode", "analyzeContent"} -> TextResponses )

(***************************************************************************)
(* State: the App component (App.tsx), the clock, the remote calls in      *)
(* flight, and a log of the current call of generateResponse               *)
(***************************************************************************)
VARIABLES
  mode,        \* useState<AgentMode>
  messages,    \* useState<Message[]>: the conversation history
  input,       \* useState(''): the text of the textarea
  isLoading,   \* useState(false)
  attachment,  \* useState<string | undefined>: the uploaded image, a data URL
  reading,     \* the FileReader started by handleFileUpload, with what it will deliver
  clock,       \* Date.now()
  pending,     \* the frames suspended on a remote call
  call,        \* log: the arguments of the current call of generateResponse
  invoked,     \* log: the service functions that call entered, with their argument
  requests,    \* log: the remote requests that call issued
  responses,   \* log: what the remote service answered to them
  outcome      \* log: how the promise of that call settled

vars == <<mode, messages, input, isLoading, attachment, reading, clock, pending, call, invoked, requests, responses, outcome>>

appVars == <<mode, messages, input, isLoading, attachment, reading>>

\* reader.result of an uploaded image
DataUrls == {"data:image/png;base64,QUJD"}

NoCall == [mode |-> "none"]

NotSettled == [status |-> "none"]

WelcomeMessage ==
  [id |-> "welcome", role |-> "model",
   content |-> "Welcome to Nexus AI. I am your unified intelligence hub.",
   type |-> "text", timestamp |-> 0]

Init ==
  /\ mode = ORCHESTRATOR
  /\ clock = 0
  /\ messages = <<WelcomeMessage>>
  /\ input = ""
  /\ isLoading = FALSE
  /\ attachment = undefined
  /\ reading = undefined
  /\ pending = <<>>
  /\ call = NoCall
  /\ invoked = <<>>
  /\ requests = <<>>
  /\ responses = <<>>
  /\ outcome = NotSettled

\* time passes
Tick ==
  /\ clock < MaxClock
  /\ clock' = clock + 1
  /\ UNCHANGED <<appVars, pending, call, invoked, requests, responses, outcome>>

(***************************************************************************)
(* A call of generateResponse, from its entry to the settling of its       *)
(* promise                                                                 *)
(***************************************************************************)
\* generateResponse(prompt, mode, history, imageAttachment) runs up to its
\* first remote request
BeginCall(prompt, agentMode, history, imageAttachment) ==
  LET started == GenerateResponseStart(prompt, agentMode, history, imageAttachment)
  IN /\ call' = [prompt |-> prompt, mode |-> agentMode, imageAttachment |-> imageAttachment]
     /\ pending' = pending \o started.pending
     /\ invoked' = started.invoked
     /\ requests' = [i \in DOMAIN started.pending |-> started.pending[i].request]
     /\ responses' = <<>>
     /\ outcome' = NotSettled

\* the remote call of pending[i] settles with `response` and its frame
\* resumes: the router may go on with a handler's remote call; otherwise the
\* promise of generateResponse settles
ResumeCall(i, response) ==
  LET completion == Resume(pending[i], response, clock)
      others == SubSeq(pending, 1, i - 1) \o SubSeq(pending, i + 1, Len(pending))
  IN /\ responses' = Append(responses, response)
     /\ IF completion.kind = "call"
        THEN /\ pending' = others \o completion.started.pending
             /\ invoked' = invoked \o completion.started.invoked
             /\ requests' = requests \o [j \in DOMAIN completion.started.pending |->
                                           completion.started.pending[j].request]
             /\ UNCHANGED <<call, outcome>>
        ELSE /\ pending' = others
             /\ outcome' = GenerateResponseCatch(completion, clock)
             /\ UNCHANGED <<call, invoked, requests>>

(***************************************************************************)
(* The service on its own: generateResponse is called with any arguments.  *)
(* The service keeps no state from one call to the next (its only module   *)
(* state is the client `ai`, which it never changes), so a behaviour here  *)
(* is one call, from any arguments to the settling of its promise.         *)
(***************************************************************************)
\* the prompts a caller passes
Prompts == {"", "hi", "hi\n[Attached Image]"}

GenerateResponse ==
  \E prompt \in Prompts, agentMode \in AgentMode, imageAttachment \in {undefined} \cup {Def(u) : u \in DataUrls} :
    /\ call = NoCall
    /\ BeginCall(Def(prompt), agentMode, messages, imageAttachment)
    /\ UNCHANGED <<appVars, clock>>

RemoteCallSettles ==
  \E i \in DOMAIN pending :
    \E response \in ResponsesFor(pending[i]) :
      /\ ResumeCall(i, response)
      /\ UNCHANGED <<appVars, clock>>

ServiceNext ==
  \/ Tick
  \/ GenerateResponse
  \/ RemoteCallSettles

ServiceSpec == Init /\ [][ServiceNext]_vars

(***************************************************************************)
(* App.tsx: the event handlers of the App component, which calls           *)
(* generateResponse from handleSendMessage                                 *)
(***************************************************************************)
\* what the user may type
Inputs == {"", " ", "hi"}

UserTurns == Cardinality({i \in DOMAIN messages : messages[i].role = "user"})

ModeChanges == Cardinality({i \in DOMAIN messages : messages[i].role = "system"})

modeLabels ==
  [m \in AgentMode |->
     CASE m = ORCHESTRATOR -> "Orchestrator Mode: Auto-routing enabled."
       [] m = CODER -> "Coder Mode: Optimized for software engineering."
       [] m = ARTIST -> "Artist Mode: Image generation enabled."
       [] m = SPEAKER -> "Speaker Mode: Text-to-Speech synthesis."
       [] m = ANALYST -> "Analyst Mode: Vision and data analysis."]

\* the textarea's onChange
SetInput ==
  \E value \in Inputs :
    /\ value # input
    /\ input' = value
    /\ UNCHANGED <<mode, messages, isLoading, attachment, reading, clock,
                   pending, call, invoked, requests, responses, outcome>>

\* the history is followed while it has room; a turn under way keeps the room
\* of its reply
RoomFor(n) == Len(messages) + n + (IF isLoading THEN 1 ELSE 0) <= MaxMessages

HandleModeChange ==
  \E newMode \in AgentMode :
    /\ ModeChanges < MaxModeChanges
    /\ RoomFor(1)
    /\ mode' = newMode
    /\ messages' = Append(messages,
         [id |-> ToString(clock), role |-> "system",
          content |-> "Switched to " \o modeLabels[newMode],
          type |-> "text", timestamp |-> clock])
    /\ UNCHANGED <<input, isLoading, attachment, reading, clock,
                   pending, call, invoked, requests, responses, outcome>>

\* a file is chosen: a FileReader starts reading it (one reader at a time here)
HandleFileUpload ==
  \E file \in DataUrls :
    /\ reading = undefined
    /\ reading' = Def(file)
    /\ UNCHANGED <<mode, messages, input, isLoading, attachment, clock,
                   pending, call, invoked, requests, responses, outcome>>

\* reader.onloadend: the data URL, or null (modelled as undefined) when the read failed
ReaderLoadEnd ==
  \E ok \in BOOLEAN :
    /\ reading # undefined
    /\ attachment' = IF ok THEN reading ELSE undefined
    /\ reading' = undefined
    /\ UNCHANGED <<mode, messages, input, isLoading, clock,
                   pending, call, invoked, requests, responses, outcome>>

\* the x button of the attachment preview, rendered while an attachment is set
RemoveAttachment ==
  /\ TruthyStr(attachment)
  /\ attachment' = undefined
  /\ UNCHANGED <<mode, messages, input, isLoading, reading, clock,
                 pending, call, invoked, requests, responses, outcome>>

\* faulty variant: the early return does not look at isLoading
HandleSendMessage_NoLoadingGuard ==
  IF Trim(input) = "" /\ ~TruthyStr(attachment)
  THEN UNCHANGED vars
  ELSE LET userMsg == [id |-> ToString(clock), role |-> "user",
                       content |-> IF TruthyStr(attachment) THEN input \o "\n[Attached Image]" ELSE input,
                       type |-> "text", timestamp |-> clock]
       IN /\ RoomFor(2)
          /\ messages' = Append(messages, userMsg)
          /\ input' = ""
          /\ isLoading' = TRUE
          /\ BeginCall(Def(userMsg.content), mode, messages, attachment)
          /\ UNCHANGED <<mode, attachment, reading, clock>>

\* handleSendMessage up to `await generateResponse(...)`: the early return, or
\* the user message, the loading flag and the call, which runs up to its
\* first remote request
HandleSendMessage ==
  IF (Trim(input) = "" /\ ~TruthyStr(attachment)) \/ isLoading
  THEN UNCHANGED vars
  ELSE LET userMsg == [id |-> ToString(clock), role |-> "user",
                       content |-> IF TruthyStr(attachment) THEN input \o "\n[Attached Image]" ELSE input,
                       type |-> "text", timestamp |-> clock]
       IN /\ RoomFor(2)
          /\ messages' = Append(messages, userMsg)
          /\ input' = ""
          /\ isLoading' = TRUE
          /\ BeginCall(Def(userMsg.content), mode, messages, attachment)
          /\ UNCHANGED <<mode, attachment, reading, clock>>

\* the `disabled` attribute of the send button
SendDisabled == isLoading \/ (Trim(input) = "" /\ ~TruthyStr(attachment))

\* the send button's onClick, which a disabled button does not deliver
SendButtonClick == ~SendDisabled /\ HandleSendMessage

\* the textarea's onKeyDown for Enter without Shift; the textarea has no
\* `disabled` attribute
EnterKeyDown == HandleSendMessage

\* botMsg, built from the Message generateResponse resolved to
BotMessage(result, now) ==
  [id |-> ToString(now + 1), role |-> "model",
   content |-> OrElse(Prop(result, "content"), "..."),
   type |-> OrElse(Prop(result, "type"), "text"),
   timestamp |-> now,
   metadata |-> Get(result, "metadata")]

\* the message of handleSendMessage's own catch block
CaughtMessage(now) ==
  [id |-> ToString(now), role |-> "model",
   content |-> "I encountered an error processing your request.",
   type |-> "error", timestamp |-> now]

\* faulty variant: the reply is appended to the history handleSendMessage saw
\* when it was called, setMessages([...messages, botMsg]), which has neither
\* the turn's user message nor what was appended since
AfterGenerateResponse_StaleHistory(settled) ==
  LET sent == CHOOSE i \in DOMAIN messages :
                /\ messages[i].role = "user"
                /\ \A j \in DOMAIN messages : messages[j].role = "user" => j <= i
  IN /\ messages' = Append(SubSeq(messages, 1, sent - 1),
          IF settled.status = "resolved" THEN BotMessage(settled.value, clock) ELSE CaughtMessage(clock))
     /\ isLoading' = FALSE
     /\ attachment' = undefined

\* faulty variant: no finally block, the flag and the attachment are reset in
\* the catch block alone
AfterGenerateResponse_NoFinally(settled) ==
  /\ messages' = Append(messages,
       IF settled.status = "resolved" THEN BotMessage(settled.value, clock) ELSE CaughtMessage(clock))
  /\ IF settled.status = "resolved"
     THEN UNCHANGED <<isLoading, attachment>>
     ELSE isLoading' = FALSE /\ attachment' = undefined

\* handleSendMessage after `await generateResponse(...)`: try, catch, finally
AfterGenerateResponse(settled) ==
  /\ messages' = Append(messages,
       IF settled.status = "resolved" THEN BotMessage(settled.value, clock) ELSE CaughtMessage(clock))
  /\ isLoading' = FALSE
  /\ attachment' = undefined

\* the responses of the remote service the App is run against: a failure and
\* one response for each path of the service
SampleResponsesFor(frame) ==
  {[ok |-> FALSE, error |-> [message |-> Def("fetch failed")]]} \cup
  ( CASE frame.fn = "runOrchestrator" ->
           { [ok |-> TRUE, functionCalls |-> undefined, text |-> Def("answer"),
              groundingChunks |-> Def(<<[web |-> Def([uri |-> Def("https://a"), title |-> Def("")])]>>)],
             [ok |-> TRUE, text |-> undefined, groundingChunks |-> undefined,
              functionCalls |-> Def(<<[name |-> "dispatch_create_image",
                                       args |-> [prompt |-> Def("a red fox"), text |-> undefined,
                                                 task_description |-> undefined]]>>)] }
      [] frame.fn \in {"generateImage", "generateSpeech"} ->
           { [ok |-> TRUE, parts |-> Def(<<[inlineData |-> Def([data |-> Def("QUJD")]), text |-> undefined]>>)] }
      [] frame.fn \in {"generateCode", "analyzeContent"} ->
           { [ok |-> TRUE, text |-> Def("answer")] } )

\* a remote call of the turn settles and its frame resumes; when that settles
\* generateResponse, handleSendMessage runs to its end
AwaitResumes ==
  \E i \in DOMAIN pending :
    \E response \in SampleResponsesFor(pending[i]) :
      /\ ResumeCall(i, response)
      /\ IF outcome'.status # "none"
         THEN AfterGenerateResponse(outcome') /\ UNCHANGED <<mode, input, reading, clock>>
         ELSE UNCHANGED <<appVars, clock>>

Next ==
  \/ Tick
  \/ SetInput
  \/ HandleModeChange
  \/ HandleFileUpload
  \/ ReaderLoadEnd
  \/ RemoveAttachment
  \/ SendButtonClick
  \/ EnterKeyDown
  \/ AwaitResumes

Spec == Init /\ [][Next]_vars

\* the App when every remote call settles, with a response or a failure: a
\* settled call resumes the function that awaits it
FairSpec == Spec /\ WF_vars(AwaitResumes)

(***************************************************************************)
(* What the claims speak of, read off the log of the call                  *)
(***************************************************************************)
ManualModes == {CODER, ARTIST, SPEAKER, ANALYST}

Settled == outcome.status # "none"

Entered(fn) == \E i \in DOMAIN invoked : invoked[i].fn = fn

\* a decision request is the one that carries the router's tools
DecisionRequests == {i \in DOMAIN requests : requests[i].tools}

\* the call went through the router's decision step and the decision came back
DecisionReturned ==
  /\ call.mode = ORCHESTRATOR
  /\ ~TruthyStr(call.imageAttachment)
  /\ Len(responses) >= 1
  /\ responses[1].ok

\* the router answered by itself: the decision came back and no handler was entered
DirectAnswer == DecisionReturned /\ Len(invoked) = 1 /\ Settled

\* the last response of the call: the one the handler got, when one was entered
LastResponse == responses[Len(responses)]

\* handler `fn` was entered and its remote call returned a response
HandlerReturned(fn) ==
  /\ Settled
  /\ invoked[Len(invoked)].fn = fn
  /\ Len(responses) = Len(requests)
  /\ responses[Len(responses)].ok

BoundHandler ==
  [m \in ManualModes |->
     CASE m = CODER -> "generateCode"
       [] m = ARTIST -> "generateImage"
       [] m = SPEAKER -> "generateSpeech"
       [] m = ANALYST -> "analyzeContent"]

(***************************************************************************)
(* C1. In a manual mode (CODER, ARTIST, SPEAKER, ANALYST) the one function *)
(* generateResponse enters is the handler bound to the mode, with the      *)
(* caller's prompt, whatever the prompt and the attachment are: the router *)
(* runOrchestrator is never entered and no decision request is issued.     *)
(***************************************************************************)
C1_ManualModeCallsBoundHandler ==
  call.mode \in ManualModes =>
    /\ invoked = <<[fn |-> BoundHandler[call.mode], arg |-> call.prompt]>>
    /\ ~Entered("runOrchestrator")
    /\ DecisionRequests = {}

\* an ARTIST call with an attachment has run to its end
C1_Witness ==
  /\ call.mode = ARTIST
  /\ TruthyStr(call.imageAttachment)
  /\ Settled
  /\ Entered("generateImage")

(***************************************************************************)
(* C2. In automatic mode with an image attachment, the vision handler      *)
(* analyzeContent is entered with the caller's prompt, whatever the text   *)
(* is, and intent detection is skipped: no decision request is sent, and   *)
(* generateImage, generateSpeech and generateCode are not entered.         *)
(***************************************************************************)
C2_AttachmentGoesToAnalysis ==
  (call.mode = ORCHESTRATOR /\ TruthyStr(call.imageAttachment)) =>
    /\ invoked = <<[fn |-> "runOrchestrator", arg |-> call.prompt],
                   [fn |-> "analyzeContent", arg |-> call.prompt]>>
    /\ DecisionRequests = {}
    /\ Len(requests) = 1
    /\ ~Entered("generateImage") /\ ~Entered("generateSpeech") /\ ~Entered("generateCode")

\* an automatic-mode call with an attachment and a text has been answered by the analysis
C2_Witness ==
  /\ call.mode = ORCHESTRATOR
  /\ TruthyStr(call.imageAttachment)
  /\ call.prompt = Def("hi\n[Attached Image]")
  /\ outcome.status = "resolved"
  /\ outcome.value.type = "text"
  /\ requests[1].data = Def("QUJD")

ToolHandler ==
  [n \in DeclaredTools |->
     CASE n = "dispatch_create_image" -> "generateImage"
       [] n = "dispatch_speak_text" -> "generateSpeech"
       [] n = "dispatch_write_code" -> "generateCode"]

ToolArgument ==
  [n \in DeclaredTools |->
     CASE n = "dispatch_create_image" -> "prompt"
       [] n = "dispatch_speak_text" -> "text"
       [] n = "dispatch_write_code" -> "task_description"]

\* the decision came back with at least one function call
DecisionWithCalls ==
  /\ DecisionReturned
  /\ TruthyObj(responses[1].functionCalls)
  /\ Len(ValueOf(responses[1].functionCalls)) >= 1

(***************************************************************************)
(* C3. When the decision response carries one or more function calls, only *)
(* the first is looked at.  If it names a declared tool, exactly the       *)
(* matching handler is entered (dispatch_create_image -> generateImage,    *)
(* dispatch_speak_text -> generateSpeech, dispatch_write_code ->           *)
(* generateCode) and gets the call's declared argument (prompt, text,      *)
(* task_description) unchanged, which is also the text of the handler's    *)
(* request.  The calls after the first are never acted upon: no second     *)
(* handler is entered, and no handler at all when the first call names no  *)
(* declared tool.                                                          *)
(***************************************************************************)
C3_OnlyFirstCallDispatched ==
  DecisionWithCalls =>
    LET first == ValueOf(responses[1].functionCalls)[1]
    IN IF first.name \in DeclaredTools
       THEN /\ invoked = <<[fn |-> "runOrchestrator", arg |-> call.prompt],
                           [fn |-> ToolHandler[first.name], arg |-> first.args[ToolArgument[first.name]]]>>
            /\ Len(requests) = 2
            /\ requests[2].text = first.args[ToolArgument[first.name]]
       ELSE /\ invoked = <<[fn |-> "runOrchestrator", arg |-> call.prompt]>>
            /\ Len(requests) = 1

\* the decision asked for speech and then for an image; the call has ended
C3_Witness ==
  /\ DecisionWithCalls
  /\ Len(ValueOf(responses[1].functionCalls)) >= 2
  /\ ValueOf(responses[1].functionCalls)[1].name = "dispatch_speak_text"
  /\ ValueOf(responses[1].functionCalls)[2].name = "dispatch_create_image"
  /\ invoked[2] = [fn |-> "generateSpeech", arg |-> Def("hello")]
  /\ Settled

\* the description of a failure: the message of the thrown Error
Description(error) ==
  IF TruthyStr(error.message) THEN ValueOf(error.message) ELSE "Unknown error occurred."

ErrorMessageOf(description) ==
  /\ outcome.status = "resolved"
  /\ outcome.value.role = "model"
  /\ outcome.value.type = "error"
  /\ outcome.value.content = "System Error: " \o description
  /\ "metadata" \notin DOMAIN outcome.value

\* the response carries no audio: no part with a non-empty inline payload
NoAudioPayload(response) ==
  /\ response.ok
  /\ \/ ~TruthyObj(response.parts)
     \/ \A i \in DOMAIN ValueOf(response.parts) :
          LET part == ValueOf(response.parts)[i]
          IN ~TruthyObj(part.inlineData) \/ ~TruthyStr(ValueOf(part.inlineData).data)

(***************************************************************************)
(* C4. The promise of generateResponse is never rejected.  A remote call   *)
(* that fails, for a handler or for the router, in any mode, and a speech  *)
(* response without audio, make it resolve to a Message of type error      *)
(* without metadata, whose content is "System Error: " followed by the     *)
(* message of the Error ("Unknown error occurred." when it has none).      *)
(***************************************************************************)
C4_FailuresBecomeErrorMessages ==
  /\ outcome.status # "rejected"
  /\ \A i \in DOMAIN responses :
       ~responses[i].ok => ErrorMessageOf(Description(responses[i].error))
  /\ (Settled /\ Entered("generateSpeech") /\ NoAudioPayload(LastResponse)) =>
       ErrorMessageOf("Audio data missing in response")

\* the router dispatched to the speech handler, whose remote call failed
C4_Witness ==
  /\ call.mode = ORCHESTRATOR
  /\ Len(responses) = 2
  /\ invoked[2].fn = "generateSpeech"
  /\ responses[2] = [ok |-> FALSE, error |-> [message |-> Def("fetch failed")]]
  /\ outcome.status = "resolved"
  /\ outcome.value.content = "System Error: fetch failed"

(***************************************************************************)
(* C5. A call issues at most one remote request in a manual mode, and in   *)
(* automatic mode at most two: the decision request first and at most one  *)
(* follow-up, which is issued only after the decision request has returned *)
(* a response.  At most one request is in flight at any time, and no       *)
(* request is issued after one has failed.                                 *)
(***************************************************************************)
C5_RemoteCallsBoundedAndSequential ==
  /\ Len(pending) <= 1
  /\ Len(requests) = Len(responses) + Len(pending)
  /\ call.mode \in ManualModes => (Len(requests) <= 1 /\ DecisionRequests = {})
  /\ call.mode = ORCHESTRATOR =>
       /\ Len(requests) <= 2
       /\ DecisionRequests \subseteq {1}
       /\ Len(requests) = 2 => (DecisionRequests = {1} /\ responses[1].ok)
  /\ \A i \in DOMAIN responses : ~responses[i].ok => Len(requests) = i
  /\ Settled => pending = <<>>

\* an automatic-mode call made its two requests and the second one failed
C5_Witness ==
  /\ call.mode = ORCHESTRATOR
  /\ Len(requests) = 2
  /\ Len(responses) = 2
  /\ ~responses[2].ok
  /\ Settled
  /\ pending = <<>>

(***************************************************************************)
(* C6. When the speech handler was entered (SPEAKER mode, or the router's  *)
(* dispatch_speak_text) and the response carries no audio payload, the     *)
(* call resolves to a Message of type error.  A Message of type audio      *)
(* comes only from the speech handler and has a non-empty                  *)
(* metadata.audioData.                                                     *)
(***************************************************************************)
C6_SpeechWithoutAudioIsError ==
  /\ (Settled /\ Entered("generateSpeech") /\ NoAudioPayload(LastResponse)) =>
       (outcome.status = "resolved" /\ outcome.value.type = "error")
  /\ (outcome.status = "resolved" /\ outcome.value.type = "audio") =>
       /\ Entered("generateSpeech")
       /\ TruthyObj(Get(outcome.value, "metadata"))
       /\ TruthyStr(Get(ValueOf(outcome.value.metadata), "audioData"))

\* the router dispatched to the speech handler, which got a text part and no audio
C6_Witness ==
  /\ DecisionWithCalls
  /\ ValueOf(responses[1].functionCalls)[1].name = "dispatch_speak_text"
  /\ Len(responses) = 2
  /\ responses[2] = [ok |-> TRUE, parts |-> Def(<<[inlineData |-> undefined, text |-> Def("a caption")]>>)]
  /\ outcome.status = "resolved"
  /\ outcome.value.type = "error"

HasInlinePayload(response) ==
  /\ TruthyObj(response.parts)
  /\ \E i \in DOMAIN ValueOf(response.parts) : TruthyObj(ValueOf(response.parts)[i].inlineData)

(***************************************************************************)
(* C7. When the image handler was entered and its remote call returned a   *)
(* response: if the response has a part with an inline payload the result  *)
(* is a Message of type image whose metadata.imageUrl starts with          *)
(* "data:image/png;base64,"; if it has none the result is a Message of     *)
(* type text that says no image could be generated, and not of type error. *)
(***************************************************************************)
C7_ImageOrTextFallback ==
  HandlerReturned("generateImage") =>
    /\ outcome.status = "resolved"
    /\ IF HasInlinePayload(LastResponse)
       THEN /\ outcome.value.type = "image"
            /\ TruthyObj(Get(outcome.value, "metadata"))
            /\ TruthyStr(Get(ValueOf(outcome.value.metadata), "imageUrl"))
            /\ StartsWith(ValueOf(ValueOf(outcome.value.metadata).imageUrl), "data:image/png;base64,")
       ELSE /\ outcome.value.type = "text"
            /\ outcome.value.content = "I couldn't generate an image. Please try a different prompt."

\* ARTIST mode: a caption part and then an inline payload give an image Message
C7_Witness ==
  /\ call.mode = ARTIST
  /\ HandlerReturned("generateImage")
  /\ LastResponse.parts = Def(<<[inlineData |-> undefined, text |-> Def("a caption")],
                                [inlineData |-> Def([data |-> Def("QUJD")]), text |-> undefined]>>)
  /\ outcome.value.type = "image"
  /\ outcome.value.content = "a caption"
  /\ outcome.value.metadata = Def([imageUrl |-> Def("data:image/png;base64,QUJD")])

IsWebCitation(chunk) == TruthyObj(chunk.web)

\* metadata.webSources of the settled Message, as a list (empty when undefined)
SourceList ==
  LET field == Get(ValueOf(outcome.value.metadata), "webSources")
  IN IF TruthyObj(field) THEN ValueOf(field) ELSE <<>>

(***************************************************************************)
(* C8. When the router answers by itself and the response carries          *)
(* grounding chunks, the sources of the answer are the web citations of    *)
(* the chunks, one source per citation and in the order of the citations,  *)
(* each with the citation's uri and with its title, or "Source" when the   *)
(* title is absent or empty.  So [{uri: "https://a", title: ""}] gives     *)
(* [{uri: "https://a", title: "Source"}].  (A chunk without a `web` entry  *)
(* is no citation and gives no source; an absent uri is collected as "".)  *)
(***************************************************************************)
C8_CitationsCollectedInOrder ==
  (DirectAnswer /\ TruthyObj(responses[1].groundingChunks)) =>
    LET chunks == ValueOf(responses[1].groundingChunks)
        citations == SelectSeq(chunks, IsWebCitation)
    IN /\ Len(SourceList) = Len(citations)
       /\ \A i \in DOMAIN citations :
            LET web == ValueOf(citations[i].web)
            IN /\ SourceList[i].uri = (IF web.uri = undefined THEN "" ELSE ValueOf(web.uri))
               /\ SourceList[i].title =
                    (IF web.title = undefined \/ web.title = Def("") THEN "Source" ELSE ValueOf(web.title))
       /\ chunks = <<[web |-> Def([uri |-> Def("https://a"), title |-> Def("")])]>> =>
            SourceList = <<[uri |-> "https://a", title |-> "Source"]>>

\* two citations, the first without a title and the second with an empty one
C8_Witness ==
  /\ DirectAnswer
  /\ responses[1].groundingChunks =
       Def(<<[web |-> Def([uri |-> Def("https://b"), title |-> undefined])],
             [web |-> Def([uri |-> Def("https://a"), title |-> Def("")])]>>)
  /\ SourceList = <<[uri |-> "https://b", title |-> "Source"], [uri |-> "https://a", title |-> "Source"]>>

NoCitationCollected ==
  \/ ~TruthyObj(responses[1].groundingChunks)
  \/ SelectSeq(ValueOf(responses[1].groundingChunks), IsWebCitation) = <<>>

C10_DirectAnswerTextOrPlaceholder ==
  DirectAnswer =>
    /\ outcome.status = "resolved"
    /\ outcome.value.type = "text"
    /\ outcome.value.content =
         (IF responses[1].text = undefined \/ responses[1].text = Def("")
          THEN "I processed that request."
          ELSE ValueOf(responses[1].text))
    /\ outcome.value.content # ""

\* the decision response has neither a function call nor a text
C10_Witness ==
  /\ DirectAnswer
  /\ responses[1].functionCalls = undefined
  /\ responses[1].text = Def("")
  /\ outcome.value.content = "I processed that request."

\* types.ts, Message.metadata: the fields that are meaningful for each type
MeaningfulFields ==
  [t \in {"text", "image", "audio", "code", "error"} |->
     CASE t = "image" -> {"imageUrl"}
       [] t = "audio" -> {"audioData"}
       [] t = "code" -> {"codeLanguage"}
       [] t = "text" -> {"webSources"}
       [] t = "error" -> {}]

\* the keys the metadata object of a Message holds, with whatever value
MetadataKeys(message) ==
  IF "metadata" \in DOMAIN message /\ TruthyObj(message.metadata)
  THEN DOMAIN ValueOf(message.metadata)
  ELSE {}

(***************************************************************************)
(* C11. Every Message generateResponse resolves to, in any mode and for    *)
(* any remote response, has a type among text, image, audio, code, error,  *)
(* and its metadata holds no key but those meaningful for its type:        *)
(* imageUrl only for image, audioData only for audio, codeLanguage only    *)
(* for code, webSources only for text.  A key that is not meaningful for   *)
(* the type is not there at all, not even with the value undefined.  A     *)
(* Message of type error has no metadata key, and a metadata key that is   *)
(* there holds an object.                                                  *)
(***************************************************************************)
C11_MetadataFieldsFollowType ==
  outcome.status = "resolved" =>
    LET message == outcome.value
    IN /\ message.type \in DOMAIN MeaningfulFields
       /\ MetadataKeys(message) \subseteq MeaningfulFields[message.type]
       /\ "metadata" \in DOMAIN message => TruthyObj(message.metadata)
       /\ message.type = "error" => "metadata" \notin DOMAIN message

\* the router dispatched to the code handler, whose Message carries codeLanguage alone
C11_Witness ==
  /\ call.mode = ORCHESTRATOR
  /\ Entered("generateCode")
  /\ outcome.status = "resolved"
  /\ outcome.value.type = "code"
  /\ MetadataKeys(outcome.value) = {"codeLanguage"}

(***************************************************************************)
(* What the claims speak of, read off the conversation history             *)
(***************************************************************************)
IsPrefix(a, b) == Len(a) <= Len(b) /\ SubSeq(b, 1, Len(a)) = a

\* the user messages among the first n messages of the history
UsersIn(n) == Cardinality({i \in 1..n : messages[i].role = "user"})

\* the replies among the first n messages: the model messages after the welcome
RepliesIn(n) == Cardinality({i \in 2..n : messages[i].role = "model"})

\* user messages and replies alternate, a user message first; the last user
\* message has no reply yet exactly while its turn is under way
TurnsPaired ==
  /\ \A n \in 0..Len(messages) : RepliesIn(n) <= UsersIn(n) /\ UsersIn(n) <= RepliesIn(n) + 1
  /\ UsersIn(Len(messages)) = RepliesIn(Len(messages)) + (IF isLoading THEN 1 ELSE 0)

(***************************************************************************)
(* C12. The conversation history is append-only and its messages are       *)
(* immutable: every step of the App (a send, a completion, a mode change,  *)
(* an upload, typing) leaves the history as it is or appends one message   *)
(* to it, so every earlier value of the history is a prefix of every later *)
(* one and no message is removed, reordered or changed.  Each turn puts    *)
(* one user message in the history and, when it ends, one model message    *)
(* after it: user messages and replies alternate.                          *)
(***************************************************************************)
C12_HistoryAppendOnly ==
  [][ /\ IsPrefix(messages, messages')
      /\ Len(messages') <= Len(messages) + 1
      /\ TurnsPaired' ]_vars

\* two turns have ended: welcome, user, reply, user, reply
C12_Witness ==
  /\ Len(messages) = 5
  /\ UsersIn(5) = 2
  /\ RepliesIn(5) = 2
  /\ messages[3].role = "model"
  /\ messages[5].role = "model"
  /\ ~isLoading

\* the index of the last user message of the history
LastSend ==
  CHOOSE i \in DOMAIN messages :
    /\ messages[i].role = "user"
    /\ \A j \in DOMAIN messages : messages[j].role = "user" => j <= i

\* at most one call of generateResponse is under way, and one is exactly
\* while isLoading is set; the send button is disabled meanwhile
OneCallInFlight ==
  /\ Len(pending) <= 1
  /\ isLoading <=> pending # <<>>
  /\ isLoading => SendDisabled

\* the step starts no turn: no user message is added and no call begins
NoNewTurn ==
  /\ UserTurns' = UserTurns
  /\ call' = call
  /\ Len(pending') <= Len(pending)

\* a step that appends a model message appends the reply to the last user
\* message, which had no reply yet
ReplyAnswersLastSend ==
  (Len(messages') = Len(messages) + 1 /\ messages'[Len(messages')].role = "model") =>
    /\ UserTurns > 0
    /\ call.prompt = Def(messages[LastSend].content)
    /\ \A j \in (LastSend + 1)..Len(messages) : messages[j].role # "model"

(***************************************************************************)
(* C13 as amended.  The UI serializes turns: while a request is            *)
(* outstanding (isLoading is true) the send button is disabled and         *)
(* handleSendMessage, which Enter still reaches, starts no turn.  So for   *)
(* any interleaving of clicks, Enter keys, typing, uploads and mode        *)
(* changes at most one call of generateResponse is in flight, and each     *)
(* model reply is appended as the answer to the last user message, before  *)
(* the next user message: replies come in the order of the user messages   *)
(* they answer.  (The text field stays editable while loading.)            *)
(***************************************************************************)
C13_TurnsSerialized ==
  [][ /\ OneCallInFlight'
      /\ isLoading => NoNewTurn
      /\ ReplyAnswersLastSend
      /\ TurnsPaired' ]_vars

(***************************************************************************)
(* C13 as claimed: as above, and while a request is outstanding input is   *)
(* disabled, so that the text of the input field does not change while     *)
(* isLoading is true.                                                      *)
(***************************************************************************)
C13_InputDisabledWhileLoading ==
  [][ /\ OneCallInFlight'
      /\ isLoading => (NoNewTurn /\ input' = input)
      /\ ReplyAnswersLastSend
      /\ TurnsPaired' ]_vars

\* the second turn is in flight and the user has typed the next text, which
\* the Enter key hands to handleSendMessage
C13_Witness ==
  /\ isLoading
  /\ UserTurns = 2
  /\ RepliesIn(Len(messages)) = 1
  /\ Len(pending) = 1
  /\ Trim(input) = "hi"
  /\ SendDisabled

\* the step ends the turn: the reply is appended, the flag and the attachment
\* are reset, and nothing of the call is left in flight
TurnEnds ==
  /\ Len(messages') = Len(messages) + 1
  /\ IsPrefix(messages, messages')
  /\ messages'[Len(messages')].role = "model"
  /\ messages'[Len(messages')].type \in {"text", "image", "audio", "code", "error"}
  /\ \A j \in (LastSend + 1)..Len(messages) : messages[j].role # "model"
  /\ attachment' = undefined
  /\ outcome'.status # "none"
  /\ pending' = <<>>

(***************************************************************************)
(* C14. When the remote calls of a turn settle (with a response or with a  *)
(* failure), every send handleSendMessage accepted ends: isLoading, once   *)
(* true, becomes false again.  The step that resets it appends exactly one *)
(* model message (a normal one or one of type error) after the turn's user *)
(* message and clears the attachment.  The flag is never true once the     *)
(* call has settled: while it is true the promise is not settled and a     *)
(* remote call is in flight.                                               *)
(***************************************************************************)
C14_AcceptedSendEndsTurn ==
  /\ [](isLoading => (outcome.status = "none" /\ pending # <<>>))
  /\ [][(isLoading /\ ~isLoading') => TurnEnds]_vars
  /\ [][(outcome.status = "none" /\ outcome'.status # "none") => (isLoading /\ ~isLoading')]_vars
  /\ (isLoading ~> ~isLoading)

\* a send with an attachment has ended with an error Message: the decision
\* request failed, the flag is reset and the attachment is cleared
C14_Witness ==
  /\ ~isLoading
  /\ UserTurns = 1
  /\ TruthyStr(call.imageAttachment)
  /\ outcome.status = "resolved"
  /\ messages[Len(messages)].role = "model"
  /\ messages[Len(messages)].type = "error"
  /\ messages[Len(messages)].content = outcome.value.content
  /\ attachment = undefined

(***************************************************************************)
(* C15. All messages of the conversation history have pairwise distinct    *)
(* ids, after any sequence of sends, completions and mode changes, where   *)
(* user and system messages take the current time as their id, the model   *)
(* reply the time of its completion plus one, and the clock never goes     *)
(* back between events.                                                    *)
(***************************************************************************)
C15_IdsPairwiseDistinct ==
  \A i, j \in DOMAIN messages : i # j => messages[i].id # messages[j].id

====
